---- MODULE Spec2Model ----
(***************************************************************************)
(* Model of scripts/BuildHTMLFromJSONFiles.py: one pass over the *.json    *)
(* files of a directory (load, validate, filter), then the rendering of    *)
(* one HTML page.                                                          *)
(*                                                                         *)
(* A Python str is a sequence of one-character strings.  A parsed JSON     *)
(* value is a record [k |-> kind, v |-> payload]; a key that is not in a   *)
(* dict is mapped to Absent.  A call that can raise returns a record whose *)
(* field "raised" names the exception ("none" when it returns normally).   *)
(***************************************************************************)
EXTENDS Integers, Sequences, FiniteSets, TLC

\* ------------------------------------------------------------------ bounds
MaxFiles == 2
MaxLen == 2

\* ------------------------------------------------------------ JSON values
Absent == [k |-> "absent", v |-> 0]
JNull == [k |-> "null", v |-> 0]
JBool(b) == [k |-> "bool", v |-> b]
JInt(n) == [k |-> "int", v |-> n]
\* a float, in tenths: JFloat(10) is 1.0, JFloat(15) is 1.5
JFloat(t) == [k |-> "float", v |-> t]
JStr(s) == [k |-> "str", v |-> s]
JList(items) == [k |-> "list", v |-> items]
JDict(fields) == [k |-> "dict", v |-> fields]

\* key in data
Has(d, key) == d[key].k # "absent"
\* isinstance(x, str), isinstance(x, list), isinstance(x, dict), x is None
IsStr(x) == x.k = "str"
IsList(x) == x.k = "list"
IsDict(x) == x.k = "dict"
IsNone(x) == x.k = "null"
\* isinstance(x, int): bool is a subclass of int
IsInstanceInt(x) == x.k \in {"int", "bool"}
\* x == 1 in Python: 1, True and 1.0 are equal
PyEqualsOne(x) ==
    \/ x.k = "int" /\ x.v = 1
    \/ x.k = "bool" /\ x.v = TRUE
    \/ x.k = "float" /\ x.v = 10
\* hashable values: every JSON value but a list or a dict
Hashable(x) == x.k \notin {"list", "dict"}
\* the classes of values Python's < compares with each other
OrderClass(x) == IF x.k \in {"int", "bool", "float"} THEN "number" ELSE x.k
\* truthiness of a str or None
Truthy(x) == IsStr(x) /\ x.v # <<>>

\* ---------------------------------------------------------------- strings
X64 == <<"x", "6", "4">>
AARCH64 == <<"a", "a", "r", "c", "h", "6", "4">>
WINDOWS == <<"W", "i", "n", "d", "o", "w", "s">>
LINUX == <<"L", "i", "n", "u", "x">>
UNNAMED == <<"U", "n", "n", "a", "m", "e", "d">>
NONE_STR == <<"N", "o", "n", "e">>

REQUIRED_KEYS ==
    <<"SchemaVersion", "Name", "Description", "Company", "SiteURL",
      "Architectures", "OperatingSystems">>
VALID_ARCHITECTURES == {X64, AARCH64}
VALID_OPERATING_SYSTEMS == {WINDOWS, LINUX}

STRING_KEYS == <<"Name", "Description", "Company", "SiteURL">>
OPTIONAL_KEYS == <<"MinNsightSystemsVersion", "SetupNotes">>

\* s.replace(old, new) for a one-character old
RECURSIVE Replace(_, _, _)
Replace(s, old, new) ==
    IF s = <<>> THEN <<>>
    ELSE (IF Head(s) = old THEN new ELSE <<Head(s)>>) \o Replace(Tail(s), old, new)

AMP == <<"&", "a", "m", "p", ";">>
LT == <<"&", "l", "t", ";">>
GT == <<"&", "g", "t", ";">>
QUOT == <<"&", "q", "u", "o", "t", ";">>

escape(s) ==
    Replace(Replace(Replace(Replace(s, "&", AMP), "<", LT), ">", GT), "\"", QUOT)

\* sep.join(parts)
RECURSIVE Join(_, _)
Join(sep, parts) ==
    IF parts = <<>> THEN <<>>
    ELSE IF Len(parts) = 1 THEN parts[1]
    ELSE parts[1] \o sep \o Join(sep, Tail(parts))

COMMA_SPACE == <<",", " ">>

\* ------------------------------------------------------------- validation
Msg(m, key, i) == [m |-> m, key |-> key, i |-> i]

\* for key in REQUIRED_KEYS: if key not in data: errors.append(...)
RECURSIVE MissingErrors(_, _)
MissingErrors(data, keys) ==
    IF keys = <<>> THEN <<>>
    ELSE (IF Has(data, Head(keys)) THEN <<>> ELSE <<Msg("missing required key", Head(keys), 0)>>)
         \o MissingErrors(data, Tail(keys))

SchemaVersionAccepted(v) == IsInstanceInt(v) /\ PyEqualsOne(v)

SchemaVersionErrors(data) ==
    IF Has(data, "SchemaVersion") /\ ~SchemaVersionAccepted(data["SchemaVersion"])
    THEN <<Msg("SchemaVersion must be the integer 1", "SchemaVersion", 0)>>
    ELSE <<>>

\* key in data and data[key] is not None and not isinstance(data[key], str)
NotStringOrNone(x) == x.k # "absent" /\ ~IsNone(x) /\ ~IsStr(x)

RECURSIVE StringErrors(_, _)
StringErrors(data, keys) ==
    IF keys = <<>> THEN <<>>
    ELSE (IF NotStringOrNone(data[Head(keys)])
          THEN <<Msg("must be a string", Head(keys), 0)>> ELSE <<>>)
         \o StringErrors(data, Tail(keys))

\* for i, item in enumerate(val): if not isinstance(item, str): ...
RECURSIVE ItemErrors(_, _, _)
ItemErrors(key, val, i) ==
    IF i >= Len(val) THEN <<>>
    ELSE (IF IsStr(val[i + 1]) THEN <<>> ELSE <<Msg("item must be a string", key, i)>>)
         \o ItemErrors(key, val, i + 1)

ValidNames(key) ==
    IF key = "Architectures" THEN VALID_ARCHITECTURES ELSE VALID_OPERATING_SYSTEMS

\* set(val) - VALID_...: the items that are not one of the valid names
InvalidItems(key, val) ==
    {val[i] : i \in {j \in 1..Len(val) : ~(IsStr(val[j]) /\ val[j].v \in ValidNames(key))}}

\* set(val) raises TypeError on an unhashable item
SetRaises(val) == \E i \in 1..Len(val) : ~Hashable(val[i])
\* sorted(invalid) raises TypeError when it must compare values of two classes
SortedRaises(invalid) == \E x, y \in invalid : OrderClass(x) # OrderClass(y)

\* one iteration of `for key in ("Architectures", "OperatingSystems")`
ArrayCheck(data, key) ==
    LET val == data[key] IN
    IF ~Has(data, key) THEN [raised |-> "none", errors |-> <<>>]
    ELSE IF ~IsList(val)
    THEN [raised |-> "none", errors |-> <<Msg("must be an array", key, 0)>>]
    ELSE LET items == ItemErrors(key, val.v, 0) IN
         IF SetRaises(val.v) THEN [raised |-> "TypeError", errors |-> items]
         ELSE LET invalid == InvalidItems(key, val.v) IN
              IF invalid = {} THEN [raised |-> "none", errors |-> items]
              ELSE IF SortedRaises(invalid) THEN [raised |-> "TypeError", errors |-> items]
              ELSE [raised |-> "none",
                    errors |-> items \o <<Msg("must only contain", key, 0)>>]

\* one iteration of `for i, entry in enumerate(img)`
EntryErrors(entry, i) ==
    IF ~IsDict(entry) THEN <<Msg("Images[i] must be an object", "Images", i)>>
    ELSE (IF NotStringOrNone(entry.v["Path"])
          THEN <<Msg("Images[i].Path must be a string", "Images", i)>> ELSE <<>>)
         \o (IF NotStringOrNone(entry.v["Description"])
             THEN <<Msg("Images[i].Description must be a string", "Images", i)>> ELSE <<>>)

RECURSIVE EntriesErrors(_, _)
EntriesErrors(img, i) ==
    IF i >= Len(img) THEN <<>>
    ELSE EntryErrors(img[i + 1], i) \o EntriesErrors(img, i + 1)

ImagesErrors(data) ==
    IF ~Has(data, "Images") THEN <<>>
    ELSE IF ~IsList(data["Images"]) THEN <<Msg("Images must be an array", "Images", 0)>>
    ELSE EntriesErrors(data["Images"].v, 0)

validate_plugin_json(data) ==
    IF ~IsDict(data)
    THEN [raised |-> "none", errors |-> <<Msg("root must be a JSON object", "", 0)>>]
    ELSE LET d == data.v
             head == MissingErrors(d, REQUIRED_KEYS) \o SchemaVersionErrors(d)
                     \o StringErrors(d, STRING_KEYS)
             arch == ArrayCheck(d, "Architectures")
             os == ArrayCheck(d, "OperatingSystems")
         IN IF arch.raised # "none"
            THEN [raised |-> arch.raised, errors |-> head \o arch.errors]
            ELSE IF os.raised # "none"
            THEN [raised |-> os.raised, errors |-> head \o arch.errors \o os.errors]
            ELSE [raised |-> "none",
                  errors |-> head \o arch.errors \o os.errors \o ImagesErrors(d)
                             \o StringErrors(d, OPTIONAL_KEYS)]

\* -------------------------------------------------------------- rendering
\* d.get(key, default)
Get(d, key, default) == IF Has(d, key) THEN d[key] ELSE default

\* str(x) for the values validation lets through: a str or None
PyStr(x) == CASE IsStr(x) -> x.v [] IsNone(x) -> NONE_STR

\* the strings sep.join(x) joins: the items of a list, the characters of a str
JoinParts(x) ==
    IF IsList(x) THEN [i \in 1..Len(x.v) |-> x.v[i].v]
    ELSE [i \in 1..Len(x.v) |-> <<x.v[i]>>]

\* escape(archs) or "-"
OrDash(s) == IF s = <<>> THEN <<"-">> ELSE s

\* p.get("Images") or []
ImagesOrEmpty(p) ==
    IF Has(p, "Images") /\ IsList(p["Images"]) /\ p["Images"].v # <<>>
    THEN p["Images"].v ELSE <<>>

\* first.get("Description", name): name is the already escaped plugin name
AltSource(first, name) == Get(first.v, "Description", JStr(name))

\* the <img> of the first image, or <<>> when there is none to show
ImgHtml(p, name) ==
    LET images == ImagesOrEmpty(p) IN
    IF images = <<>> THEN <<>>
    ELSE LET first == images[1]
             path == Get(first.v, "Path", JStr(<<>>))
             alt == escape(AltSource(first, name).v)
         IN IF Truthy(path) THEN <<[path |-> escape(path.v), alt |-> alt]>> ELSE <<>>

\* escape(x) raises AttributeError when x has no replace method
EscapeRaises(x) == ~IsStr(x)

\* lines 122-123: the two escapes before toc_rows.append
RowRaisesEarly(p) ==
    \/ EscapeRaises(Get(p, "Company", JStr(UNNAMED)))
    \/ EscapeRaises(Get(p, "Name", JStr(UNNAMED)))

\* lines 126-138: the escapes after toc_rows.append
RowRaisesLate(p) ==
    \/ EscapeRaises(Get(p, "Description", JStr(<<>>)))
    \/ EscapeRaises(Get(p, "SiteURL", JStr(<<>>)))
    \/ EscapeRaises(Get(p, "SetupNotes", JStr(<<>>)))
    \/ /\ ImagesOrEmpty(p) # <<>>
       /\ EscapeRaises(AltSource(ImagesOrEmpty(p)[1], <<>>))

TocRow(p, i) ==
    [anchor |-> i, name |-> escape(Get(p, "Name", JStr(UNNAMED)).v)]

Card(p, i) ==
    LET name == escape(Get(p, "Name", JStr(UNNAMED)).v)
        site_url == Get(p, "SiteURL", JStr(<<>>))
    IN [anchor |-> i,
        name |-> name,
        desc |-> escape(Get(p, "Description", JStr(<<>>)).v),
        img |-> ImgHtml(p, name),
        archs |-> OrDash(escape(Join(COMMA_SPACE, JoinParts(Get(p, "Architectures", JList(<<>>)))))),
        oses |-> OrDash(escape(Join(COMMA_SPACE, JoinParts(Get(p, "OperatingSystems", JList(<<>>)))))),
        min_ver |-> escape(PyStr(Get(p, "MinNsightSystemsVersion", JStr(<<>>)))),
        setup_notes |-> escape(Get(p, "SetupNotes", JStr(<<>>)).v),
        site |-> IF Truthy(site_url) THEN escape(site_url.v) ELSE <<>>,
        company |-> escape(Get(p, "Company", JStr(UNNAMED)).v)]

\* ---------------------------------------------------------------- loading
\* What open() and json.load() make of a file: k is "OSError" (cannot be
\* opened or read), "UnicodeDecodeError" (not UTF-8), "JSONDecodeError"
\* (not well-formed JSON) or "json", with v the parsed value.
File(k, v) == [k |-> k, v |-> v]

\* load_plugin_json: the value, None after a caught error, or a raise
load_plugin_json(file) ==
    CASE file.k = "json" -> [raised |-> "none", printed |-> FALSE, data |-> file.v]
      [] file.k \in {"OSError", "JSONDecodeError"} ->
            [raised |-> "none", printed |-> TRUE, data |-> JNull]
      [] OTHER -> [raised |-> file.k, printed |-> FALSE, data |-> JNull]

\* ------------------------------------------------------------------ inputs
Chars == {"&", "<", ">", "\"", "a"}
Strings == UNION {[1..m -> Chars] : m \in 0..MaxLen}

Entry(path, description) == JDict([Path |-> path, Description |-> description])

\* a descriptor that passes validation and renders
Base ==
    [SchemaVersion |-> JInt(1),
     Name |-> JStr(<<"a">>),
     Description |-> JStr(<<"a">>),
     Company |-> JStr(<<"a">>),
     SiteURL |-> JStr(<<"a">>),
     Architectures |-> JList(<<JStr(X64)>>),
     OperatingSystems |-> JList(<<JStr(LINUX)>>),
     Images |-> Absent,
     MinNsightSystemsVersion |-> Absent,
     SetupNotes |-> Absent]

With(key, val) == File("json", JDict([Base EXCEPT ![key] = val]))
With2(key1, val1, key2, val2) ==
    File("json", JDict([Base EXCEPT ![key1] = val1, ![key2] = val2]))

StrValues == {JStr(s) : s \in Strings}
SchemaVersionValues ==
    {Absent, JNull, JBool(TRUE), JBool(FALSE), JInt(0), JInt(1), JInt(2),
     JFloat(10), JFloat(15), JStr(<<"1">>), JList(<<JInt(1)>>)}
FieldValues == {Absent, JNull, JInt(1), JBool(TRUE), JList(<<>>)} \cup StrValues
Items ==
    {JStr(X64), JStr(AARCH64), JStr(LINUX), JStr(WINDOWS), JStr(<<"a">>),
     JInt(1), JNull, JBool(TRUE), JFloat(15), JList(<<>>), Entry(Absent, Absent)}
ArrayValues ==
    {Absent, JNull, JInt(1), JStr(X64)}
    \cup {JList(items) : items \in UNION {[1..m -> Items] : m \in 0..2}}
Entries ==
    {Entry(path, description) :
        path \in {Absent, JNull, JInt(1)} \cup StrValues,
        description \in {Absent, JNull, JInt(1), JStr(<<"a">>)}}
    \cup {Entry(JStr(<<"a">>), description) : description \in StrValues}
ImagesValues ==
    {Absent, JNull, JStr(<<"a">>), JList(<<>>), JList(<<JInt(1)>>)}
    \cup {JList(<<e>>) : e \in Entries}
    \cup {JList(<<Entry(JStr(<<"a">>), Absent), e>>) : e \in Entries}
FallbackImages ==
    {JList(<<Entry(JStr(<<"a">>), Absent)>>),
     JList(<<Entry(Absent, Absent)>>),
     JList(<<Entry(JStr(<<"a">>), JStr(<<"<">>))>>)}

\* the files of the directories that hold a single, finely varied file
RichFiles ==
    {With("SchemaVersion", val) : val \in SchemaVersionValues}
    \cup {With(key, val) :
            key \in {"Name", "Description", "Company", "SiteURL",
                     "MinNsightSystemsVersion", "SetupNotes"},
            val \in FieldValues}
    \cup {With(key, val) : key \in {"Architectures", "OperatingSystems"}, val \in ArrayValues}
    \cup {With("Images", val) : val \in ImagesValues}
    \cup {With2("Name", name, "Images", val) :
            name \in {JNull} \cup StrValues, val \in FallbackImages}
    \cup {File("json", val) : val \in {JNull, JBool(TRUE), JInt(1), JFloat(15), JStr(<<"a">>),
                                       JList(<<>>), JList(<<JInt(1)>>)}}

\* the files of the directories that hold several files
CoarseFiles ==
    {File("OSError", JNull), File("JSONDecodeError", JNull), File("UnicodeDecodeError", JNull),
     File("json", JNull), File("json", JList(<<>>)),
     File("json", JDict(Base)),
     With("SchemaVersion", JBool(TRUE)), With("SchemaVersion", JInt(2)),
     With("Name", JNull), With("Name", Absent),
     With("Architectures", JList(<<JList(<<>>)>>)),
     With("Architectures", JList(<<JInt(1), JStr(<<"a">>)>>)),
     With("OperatingSystems", JList(<<JStr(<<"a">>)>>)),
     With("Images", JList(<<Entry(JStr(<<"a">>), JNull)>>)),
     With("SetupNotes", JNull), With("MinNsightSystemsVersion", JNull),
     With2("Name", JStr(<<"&">>), "Images", JList(<<Entry(JStr(<<"a">>), Absent)>>))}

Directories ==
    UNION {[1..m -> CoarseFiles] : m \in 0..MaxFiles} \cup {<<f>> : f \in RichFiles}

\* ------------------------------------------------------------------- state
VARIABLES
    input_dir,    \* args.input_dir: "none", "missing" or "plugins"
    output_file,  \* args.output_file: "none" or a path
    files,        \* sorted(input_dir.glob("*.json"))
    pc,           \* "main", "collect", "build", "done"
    idx,          \* position of the loop of collect_plugins in files
    plugins,      \* the list collect_plugins builds
    validated,    \* the calls of validate_plugin_json and their outcomes
    stderr,       \* the lines printed to sys.stderr
    row,          \* position of the loop of build_html in plugins
    toc_rows,
    body_rows,
    written,      \* the files written, in order
    exit          \* "running", the exit status "0" or "1", or the exception raised

vars ==
    <<input_dir, output_file, files, pc, idx, plugins, validated, stderr, row,
      toc_rows, body_rows, written, exit>>

OutputPaths == {"out.html", "/readonly/out.html"}
\* write_text raises OSError on a path that cannot be written
Writable(path) == path = "out.html"

Init ==
    /\ input_dir \in {"none", "missing", "plugins"}
    /\ output_file \in {"none"} \cup OutputPaths
    /\ files \in Directories
    /\ input_dir # "plugins" => files = <<>>
    /\ pc = "main"
    /\ idx = 1
    /\ plugins = <<>>
    /\ validated = <<>>
    /\ stderr = <<>>
    /\ row = 1
    /\ toc_rows = <<>>
    /\ body_rows = <<>>
    /\ written = <<>>
    /\ exit = "running"

Line(path, msg, errors) == [path |-> path, msg |-> msg, errors |-> errors]

Finish(status) == pc' = "done" /\ exit' = status

\* -------------------------------------------------------------------- main
\* line 245: args.input_dir is None when --input-dir is not given
MainNoInputDir ==
    /\ pc = "main" /\ input_dir = "none"
    /\ Finish("AttributeError")
    /\ UNCHANGED <<input_dir, output_file, files, idx, plugins, validated, stderr, row,
                   toc_rows, body_rows, written>>

\* lines 246-248
MainNotADirectory ==
    /\ pc = "main" /\ input_dir = "missing"
    /\ stderr' = Append(stderr, Line(0, "not a directory", <<>>))
    /\ Finish("1")
    /\ UNCHANGED <<input_dir, output_file, files, idx, plugins, validated, row,
                   toc_rows, body_rows, written>>

\* lines 249-253
MainNoOutputFile ==
    /\ pc = "main" /\ input_dir = "plugins" /\ output_file = "none"
    /\ Finish("1")
    /\ UNCHANGED <<input_dir, output_file, files, idx, plugins, validated, stderr, row,
                   toc_rows, body_rows, written>>

\* line 255: the call of collect_plugins
MainCollect ==
    /\ pc = "main" /\ input_dir = "plugins" /\ output_file # "none"
    /\ pc' = "collect"
    /\ UNCHANGED <<input_dir, output_file, files, idx, plugins, validated, stderr, row,
                   toc_rows, body_rows, written, exit>>

\* ---------------------------------------------------------- collect_plugins
\* line 97: if validation_errors
Rejected(validation_errors) == validation_errors # <<>>

\* a slip for line 102: the list is replaced instead of extended
PluginsOverwrite(list, data) == <<data>>

\* line 102: plugins.append(data)
PluginsAppend(list, data) == Append(list, data)

\* lines 91-102: one iteration of the loop over the files
CollectFile ==
    /\ pc = "collect" /\ idx <= Len(files)
    /\ LET loaded == load_plugin_json(files[idx])
           parse_line == IF loaded.printed
                         THEN <<Line(idx, "failed to parse", <<>>)>> ELSE <<>>
       IN IF loaded.raised # "none"
          THEN /\ Finish(loaded.raised)
               /\ UNCHANGED <<idx, plugins, validated, stderr>>
          ELSE IF IsNone(loaded.data)
          THEN /\ stderr' = stderr \o parse_line \o <<Line(idx, "failed to load", <<>>)>>
               /\ idx' = idx + 1
               /\ UNCHANGED <<pc, exit, plugins, validated>>
          ELSE LET res == validate_plugin_json(loaded.data) IN
               /\ validated' = Append(validated, [path |-> idx, raised |-> res.raised,
                                                  errors |-> res.errors])
               /\ IF res.raised # "none"
                  THEN /\ Finish(res.raised)
                       /\ UNCHANGED <<idx, plugins, stderr>>
                  ELSE IF Rejected(res.errors)
                  THEN /\ stderr' = Append(stderr, Line(idx, "invalid format", res.errors))
                       /\ idx' = idx + 1
                       /\ UNCHANGED <<pc, exit, plugins>>
                  ELSE /\ plugins' = PluginsAppend(plugins, loaded.data.v)
                       /\ idx' = idx + 1
                       /\ UNCHANGED <<pc, exit, stderr>>
    /\ UNCHANGED <<input_dir, output_file, files, row, toc_rows, body_rows, written>>

\* a slip for line 256: the empty list is not detected
NoPluginsNever(list) == FALSE

\* line 256: if not plugins
NoPlugins(list) == list = <<>>

\* lines 103 and 256-258: collect_plugins returns an empty list
MainNoPlugins ==
    /\ pc = "collect" /\ idx > Len(files) /\ NoPlugins(plugins)
    /\ stderr' = Append(stderr, Line(0, "No plugin JSON files found.", <<>>))
    /\ Finish("1")
    /\ UNCHANGED <<input_dir, output_file, files, idx, plugins, validated, row,
                   toc_rows, body_rows, written>>

\* lines 103 and 260: collect_plugins returns plugins, main calls build_html
MainBuild ==
    /\ pc = "collect" /\ idx > Len(files) /\ ~NoPlugins(plugins)
    /\ pc' = "build"
    /\ UNCHANGED <<input_dir, output_file, files, idx, plugins, validated, stderr, row,
                   toc_rows, body_rows, written, exit>>

\* --------------------------------------------------------------- build_html
\* lines 121-160: one iteration of the loop over the plugins
BuildRow ==
    /\ pc = "build" /\ row <= Len(plugins)
    /\ LET p == plugins[row] IN
       IF RowRaisesEarly(p)
       THEN /\ Finish("AttributeError")
            /\ UNCHANGED <<row, toc_rows, body_rows>>
       ELSE IF RowRaisesLate(p)
       THEN /\ toc_rows' = Append(toc_rows, TocRow(p, row - 1))
            /\ Finish("AttributeError")
            /\ UNCHANGED <<row, body_rows>>
       ELSE /\ toc_rows' = Append(toc_rows, TocRow(p, row - 1))
            /\ body_rows' = Append(body_rows, Card(p, row - 1))
            /\ row' = row + 1
            /\ UNCHANGED <<pc, exit>>
    /\ UNCHANGED <<input_dir, output_file, files, idx, plugins, validated, stderr, written>>

\* output_file_path.write_text(html)
WriteText(out, path, html) == Append(out, [path |-> path, html |-> html])

\* lines 161-224 and 261-263: the page is assembled and written, main returns 0
BuildWrite ==
    /\ pc = "build" /\ row > Len(plugins)
    /\ IF Writable(output_file)
       THEN /\ written' = WriteText(written, output_file, [toc |-> toc_rows, body |-> body_rows])
            /\ Finish("0")
       ELSE /\ Finish("OSError")
            /\ UNCHANGED written
    /\ UNCHANGED <<input_dir, output_file, files, idx, plugins, validated, stderr, row,
                   toc_rows, body_rows>>

Next ==
    \/ MainNoInputDir
    \/ MainNotADirectory
    \/ MainNoOutputFile
    \/ MainCollect
    \/ CollectFile
    \/ MainNoPlugins
    \/ MainBuild
    \/ BuildRow
    \/ BuildWrite

Spec == Init /\ [][Next]_vars

TypeOK ==
    /\ pc \in {"main", "collect", "build", "done"}
    /\ exit \in {"running", "0", "1", "AttributeError", "TypeError", "UnicodeDecodeError",
                 "OSError"}
    /\ idx \in 1..(Len(files) + 1)
    /\ row \in 1..(Len(plugins) + 1)

\* ------------------------------------------------------------------ claims
\* a file that parses and passes validate_plugin_json
ValidFile(f) ==
    /\ f.k = "json"
    /\ validate_plugin_json(f.v).raised = "none"
    /\ validate_plugin_json(f.v).errors = <<>>

\* the descriptors of the valid files among the first n files, in order
ValidAmong(n) ==
    LET valid == SelectSeq(SubSeq(files, 1, n), ValidFile)
    IN [i \in 1..Len(valid) |-> valid[i].v.v]

SomeValidFile == \E j \in 1..Len(files) : ValidFile(files[j])

\* the run ended with an uncaught exception
Uncaught == pc = "done" /\ exit \notin {"0", "1"}

\* build_html was called: collect_plugins returned a non-empty list
BuildCalled == pc \in {"build", "done"} /\ idx > Len(files) /\ plugins # <<>>

\* C1: every *.json file that cannot be read, is not well-formed JSON or does
\* not satisfy the schema is logged, is left out of the plugin list, and does
\* not end the run: the loop goes on to the next file.
C1_BadFilesLoggedAndSkipped ==
    /\ \A j \in 1..Len(files) :
          ~ValidFile(files[j]) =>
             /\ j < idx => \E k \in 1..Len(stderr) : stderr[k].path = j
             /\ ~(Uncaught /\ idx = j)
    /\ plugins = ValidAmong(idx - 1)

\* C2: whenever the input directory exists and holds at least one valid plugin
\* file, main returns 0, whatever the command-line arguments and the other
\* files of the directory.
C2_FailsOnlyWithoutValidInput ==
    (pc = "done" /\ input_dir = "plugins" /\ SomeValidFile) => exit = "0"

\* C3: on a successful run the page holds exactly one table-of-contents item
\* and exactly one card per valid file, in file order, and nothing for a file
\* that failed to load or validate.
C3_PageListsExactlyValidEntries ==
    exit = "0" =>
        LET valid == ValidAmong(Len(files))
            page == written[1].html
        IN /\ Len(page.toc) = Len(valid)
           /\ Len(page.body) = Len(valid)
           /\ \A i \in 1..Len(valid) :
                 /\ page.toc[i] = TocRow(valid[i], i - 1)
                 /\ page.body[i] = Card(valid[i], i - 1)

\* C3 witness: a successful run over a directory that holds a valid file and a
\* file that was skipped.
C3_Witness ==
    /\ exit = "0"
    /\ Len(files) = 2
    /\ \E j \in 1..2 : ~ValidFile(files[j])
    /\ Len(written[1].html.body) = 1

NullableStr(x) == x.k \in {"absent", "null", "str"}
NamesFrom(x, names) == IsList(x) /\ \A i \in 1..Len(x.v) : IsStr(x.v[i]) /\ x.v[i].v \in names
Conforms(x) ==
    /\ IsDict(x)
    /\ \A i \in 1..Len(REQUIRED_KEYS) : Has(x.v, REQUIRED_KEYS[i])
    /\ SchemaVersionAccepted(x.v["SchemaVersion"])
    /\ \A key \in {"Name", "Description", "Company", "SiteURL",
                   "MinNsightSystemsVersion", "SetupNotes"} : NullableStr(x.v[key])
    /\ NamesFrom(x.v["Architectures"], VALID_ARCHITECTURES)
    /\ NamesFrom(x.v["OperatingSystems"], VALID_OPERATING_SYSTEMS)
    /\ Has(x.v, "Images") =>
          /\ IsList(x.v["Images"])
          /\ \A i \in 1..Len(x.v["Images"].v) :
                LET entry == x.v["Images"].v[i]
                IN IsDict(entry) /\ NullableStr(entry.v["Path"])
                   /\ NullableStr(entry.v["Description"])

\* C5: validate_plugin_json is total: on every parsed JSON value it returns a
\* list of error messages and never raises, and the list is empty exactly when
\* the value is valid.
C5_ValidateIsTotal ==
    \A k \in 1..Len(validated) :
        /\ validated[k].raised = "none"
        /\ validated[k].errors = <<>> <=> Conforms(files[validated[k].path].v)

\* C6: validate_plugin_json reports no SchemaVersion error if and only if the
\* SchemaVersion of the descriptor is the JSON integer 1.
C6_SchemaVersionIsIntegerOne ==
    \A k \in 1..Len(validated) :
        LET data == files[validated[k].path].v IN
        (validated[k].raised = "none" /\ IsDict(data)) =>
            ((\A e \in 1..Len(validated[k].errors) :
                  validated[k].errors[e].key # "SchemaVersion")
             <=> data.v["SchemaVersion"] = JInt(1))

\* C7: in every accepted descriptor the seven required keys are present, Name,
\* Description, Company and SiteURL are strings, and Architectures and
\* OperatingSystems are arrays of strings from {x64, aarch64} and
\* {Windows, Linux}.
C7_AcceptedIsWellTyped ==
    \A i \in 1..Len(plugins) :
        /\ \A r \in 1..Len(REQUIRED_KEYS) : Has(plugins[i], REQUIRED_KEYS[r])
        /\ \A key \in {"Name", "Description", "Company", "SiteURL"} : IsStr(plugins[i][key])
        /\ NamesFrom(plugins[i]["Architectures"], VALID_ARCHITECTURES)
        /\ NamesFrom(plugins[i]["OperatingSystems"], VALID_OPERATING_SYSTEMS)

\* C8: for every list of accepted descriptors build_html completes and writes
\* the page without raising.
C8_AcceptedRenders ==
    (BuildCalled /\ Writable(output_file) /\ pc = "done") => exit = "0"

\* decoding of the four entities escape produces
HasPrefix(s, prefix) == Len(s) >= Len(prefix) /\ SubSeq(s, 1, Len(prefix)) = prefix
RECURSIVE Decode(_)
Decode(s) ==
    IF s = <<>> THEN <<>>
    ELSE IF HasPrefix(s, AMP) THEN <<"&">> \o Decode(SubSeq(s, Len(AMP) + 1, Len(s)))
    ELSE IF HasPrefix(s, LT) THEN <<"<">> \o Decode(SubSeq(s, Len(LT) + 1, Len(s)))
    ELSE IF HasPrefix(s, GT) THEN <<">">> \o Decode(SubSeq(s, Len(GT) + 1, Len(s)))
    ELSE IF HasPrefix(s, QUOT) THEN <<"\"">> \o Decode(SubSeq(s, Len(QUOT) + 1, Len(s)))
    ELSE <<Head(s)>> \o Decode(Tail(s))

\* text holds no raw <, > or ", and each & in it begins an entity
WellEscaped(text) ==
    \A i \in 1..Len(text) :
        /\ text[i] \notin {"<", ">", "\""}
        /\ text[i] = "&" =>
              \E entity \in {AMP, LT, GT, QUOT} : HasPrefix(SubSeq(text, i, Len(text)), entity)

\* text is the string s escaped exactly once
EscapedOnce(text, s) == text = escape(s) /\ WellEscaped(text) /\ Decode(text) = s

\* the string the alt text of a card is taken from
AltOrigin(p) ==
    LET first == p["Images"].v[1]
    IN IF Has(first.v, "Description") THEN first.v["Description"].v ELSE p["Name"].v

\* C9: every string taken from a descriptor is inserted into the page escaped
\* exactly once, the alt text that falls back to the plugin name included.
C9_InsertedTextEscapedOnce ==
    \A i \in 1..Len(body_rows) :
        LET p == plugins[i]
            card == body_rows[i]
        IN /\ \A t \in 1..Len(toc_rows) : toc_rows[t].anchor = i - 1 =>
                 EscapedOnce(toc_rows[t].name, p["Name"].v)
           /\ EscapedOnce(card.name, p["Name"].v)
           /\ EscapedOnce(card.company, p["Company"].v)
           /\ EscapedOnce(card.desc, p["Description"].v)
           /\ Truthy(p["SiteURL"]) => EscapedOnce(card.site, p["SiteURL"].v)
           /\ IsStr(p["MinNsightSystemsVersion"]) =>
                 EscapedOnce(card.min_ver, p["MinNsightSystemsVersion"].v)
           /\ IsStr(p["SetupNotes"]) => EscapedOnce(card.setup_notes, p["SetupNotes"].v)
           /\ p["Architectures"].v # <<>> =>
                 card.archs = Join(COMMA_SPACE,
                                   [n \in 1..Len(p["Architectures"].v) |->
                                       escape(p["Architectures"].v[n].v)])
           /\ p["OperatingSystems"].v # <<>> =>
                 card.oses = Join(COMMA_SPACE,
                                  [n \in 1..Len(p["OperatingSystems"].v) |->
                                      escape(p["OperatingSystems"].v[n].v)])
           /\ card.img # <<>> =>
                 /\ EscapedOnce(card.img[1].path, p["Images"].v[1].v["Path"].v)
                 /\ EscapedOnce(card.img[1].alt, AltOrigin(p))

====
